---------------------------- MODULE Spec2Model ----------------------------
(***************************************************************************)
(* loglens: the analysis core of src/loglens/core.py.                      *)
(*                                                                         *)
(* Text lines are TLA+ strings; the regular expressions of the module are  *)
(* matched character by character (match_at), so that classification and   *)
(* normalisation are computed the way `re` computes them.  A datetime is   *)
(* the tuple <<year, month, day, hour, minute, second>>, Python's None is  *)
(* the empty tuple, a dict is a function from its keys, and a Counter is   *)
(* the sequence of its <<key, count>> items in insertion order (the order  *)
(* most_common breaks ties by).                                            *)
(***************************************************************************)
EXTENDS Integers, Sequences, FiniteSets, TLC

(***************************************************************************)
(* Characters and strings                                                  *)
(***************************************************************************)
None == <<>>

Digits == {"0", "1", "2", "3", "4", "5", "6", "7", "8", "9"}

Letters ==
    {"a", "b", "c", "d", "e", "f", "g", "h", "i", "j", "k", "l", "m",
     "n", "o", "p", "q", "r", "s", "t", "u", "v", "w", "x", "y", "z",
     "A", "B", "C", "D", "E", "F", "G", "H", "I", "J", "K", "L", "M",
     "N", "O", "P", "Q", "R", "S", "T", "U", "V", "W", "X", "Y", "Z"}

\* \w of `re`
WordChars == Letters \cup Digits \cup {"_"}

\* [A-Za-z0-9_\-\.] of SOURCE_PATTERN
SourceChars == Letters \cup Digits \cup {"_", "-", "."}

\* \s of `re` (the ASCII part)
Whitespace == {" ", "\t", "\n", "\r", "\f"}

\* s[i-1] in Python's indexing; "" outside the string
Ch(s, i) == IF i >= 1 /\ i <= Len(s) THEN SubSeq(s, i, i) ELSE ""

\* s[i-1:]
Tail0(s, i) == IF i > Len(s) THEN "" ELSE SubSeq(s, i, Len(s))

\* s.startswith(lit, i-1)
LiteralAt(s, i, lit) ==
    /\ i + Len(lit) - 1 <= Len(s)
    /\ SubSeq(s, i, i + Len(lit) - 1) = lit

\* \b between s[i-2] and s[i-1]
WordBoundary(s, i) == (Ch(s, i - 1) \in WordChars) # (Ch(s, i) \in WordChars)

Min(S) == CHOOSE m \in S : \A n \in S : m <= n

Max(S) == CHOOSE m \in S : \A n \in S : m >= n

\* the end (exclusive) of the longest run of characters of `cs` from i on
RunEnd(s, i, cs) == Min({j \in i..(Len(s) + 1) : Ch(s, j) \notin cs})

DigitValue(c) ==
    CASE c = "0" -> 0 [] c = "1" -> 1 [] c = "2" -> 2 [] c = "3" -> 3
      [] c = "4" -> 4 [] c = "5" -> 5 [] c = "6" -> 6 [] c = "7" -> 7
      [] c = "8" -> 8 [] c = "9" -> 9

\* int(s) of a string of digits
ToInt(s) ==
    LET value[k \in 0..Len(s)] ==
            IF k = 0 THEN 0 ELSE 10 * value[k - 1] + DigitValue(Ch(s, k))
    IN  value[Len(s)]

(***************************************************************************)
(* The compiled patterns (core.py 21-28) and the `re` operations on them   *)
(***************************************************************************)
LOGLEVEL_PATTERN == "LOGLEVEL"

\* the space-separated form comes first
TIMESTAMP_PATTERNS == <<"TS_SPACE", "TS_T">>

SOURCE_PATTERN == "SOURCE"

\* r"\s+" of normalize_message
WHITESPACE_PATTERN == "WS"

\* the alternatives of LOGLEVEL_PATTERN, in the order the regex tries them
LevelTokens == <<"INFO", "WARN", "WARNING", "ERROR", "DEBUG", "CRITICAL">>

\* the alternatives of SOURCE_PATTERN's key
SourceKeys == <<"service", "app", "src", "module">>

\* \d{4}-\d{2}-\d{2}<sep>\d{2}:\d{2}:\d{2} at i
TimestampAt(s, i, sep) ==
    /\ i + 18 <= Len(s)
    /\ \A k \in {0, 1, 2, 3, 5, 6, 8, 9, 11, 12, 14, 15, 17, 18} :
           Ch(s, i + k) \in Digits
    /\ Ch(s, i + 4) = "-"
    /\ Ch(s, i + 7) = "-"
    /\ Ch(s, i + 10) = sep
    /\ Ch(s, i + 13) = ":"
    /\ Ch(s, i + 16) = ":"

\* \b(INFO|WARN|WARNING|ERROR|DEBUG|CRITICAL)\b at i: the first alternative,
\* in order, that is followed by a word boundary
LevelAt(s, i) ==
    LET ok == {k \in 1..Len(LevelTokens) :
                   /\ LiteralAt(s, i, LevelTokens[k])
                   /\ WordBoundary(s, i + Len(LevelTokens[k]))}
    IN  IF WordBoundary(s, i) /\ ok # {}
        THEN i + Len(LevelTokens[Min(ok)])
        ELSE 0

\* \b(?:service|app|src|module)=(?P<source>[A-Za-z0-9_\-\.]+) at i
SourceAt(s, i) ==
    LET ok == {k \in 1..Len(SourceKeys) :
                   /\ LiteralAt(s, i, SourceKeys[k] \o "=")
                   /\ Ch(s, i + Len(SourceKeys[k]) + 1) \in SourceChars}
    IN  IF WordBoundary(s, i) /\ ok # {}
        THEN RunEnd(s, i + Len(SourceKeys[Min(ok)]) + 1, SourceChars)
        ELSE 0

\* pattern.match(s, i-1): the end (exclusive, 1-based) of the match of
\* `pattern` that starts at i, or 0 when there is none
match_at(pattern, s, i) ==
    CASE pattern = "TS_SPACE" -> IF TimestampAt(s, i, " ") THEN i + 19 ELSE 0
      [] pattern = "TS_T"     -> IF TimestampAt(s, i, "T") THEN i + 19 ELSE 0
      [] pattern = "LOGLEVEL" -> LevelAt(s, i)
      [] pattern = "SOURCE"   -> SourceAt(s, i)
      [] pattern = "WS"       ->
             IF Ch(s, i) \in Whitespace THEN RunEnd(s, i, Whitespace) ELSE 0

\* pattern.search(s): the start of the leftmost match, or 0 (no match)
search(pattern, s) ==
    LET hits == {i \in 1..Len(s) : match_at(pattern, s, i) > 0}
    IN  IF hits = {} THEN 0 ELSE Min(hits)

\* pattern.sub(repl, s): every non-overlapping match, left to right
sub(pattern, repl, s) ==
    LET from[i \in 1..(Len(s) + 1)] ==
            IF i > Len(s) THEN ""
            ELSE LET e == match_at(pattern, s, i)
                 IN  IF e > 0 THEN repl \o from[e]
                     ELSE Ch(s, i) \o from[i + 1]
    IN  from[1]

\* s.rstrip(chars)
rstrip(s, chars) ==
    SubSeq(s, 1, Max({0} \cup {j \in 1..Len(s) : Ch(s, j) \notin chars}))

\* s.lstrip(chars)
lstrip(s, chars) ==
    Tail0(s, Min({Len(s) + 1} \cup {j \in 1..Len(s) : Ch(s, j) \notin chars}))

\* s.strip()
strip(s) ==
    LET first == Min({Len(s) + 1} \cup {j \in 1..Len(s) : Ch(s, j) \notin Whitespace})
        last  == Max({0} \cup {j \in 1..Len(s) : Ch(s, j) \notin Whitespace})
    IN  IF first > last THEN "" ELSE SubSeq(s, first, last)

(***************************************************************************)
(* datetime                                                                *)
(***************************************************************************)
\* what a failed strptime raises; no datetime has this shape
ValueError == <<-1>>

IsLeap(y) == (y % 4 = 0 /\ y % 100 # 0) \/ y % 400 = 0

DaysInMonth(y, m) ==
    IF m = 2 THEN (IF IsLeap(y) THEN 29 ELSE 28)
    ELSE IF m \in {4, 6, 9, 11} THEN 30 ELSE 31

\* datetime.strptime(ts_str, fmt) for the two formats of parse_timestamp,
\* "%Y-%m-%d %H:%M:%S" (sep = " ") and "%Y-%m-%dT%H:%M:%S" (sep = "T"):
\* the datetime, or ValueError when the string does not have the format's
\* shape or names no date-time (datetime's own range checks)
strptime(ts_str, sep) ==
    IF ~(Len(ts_str) = 19 /\ TimestampAt(ts_str, 1, sep)) THEN ValueError
    ELSE LET y  == ToInt(SubSeq(ts_str, 1, 4))
             mo == ToInt(SubSeq(ts_str, 6, 7))
             d  == ToInt(SubSeq(ts_str, 9, 10))
             h  == ToInt(SubSeq(ts_str, 12, 13))
             mi == ToInt(SubSeq(ts_str, 15, 16))
             sc == ToInt(SubSeq(ts_str, 18, 19))
         IN  IF /\ y >= 1
                /\ mo >= 1 /\ mo <= 12
                /\ d >= 1 /\ d <= DaysInMonth(y, mo)
                /\ h <= 23 /\ mi <= 59 /\ sc <= 59
             THEN <<y, mo, d, h, mi, sc>>
             ELSE ValueError

\* datetime.__lt__: lexicographic on the fields
LexLess(t, u) ==
    \E k \in DOMAIN t : t[k] < u[k] /\ \A j \in 1..(k - 1) : t[j] = u[j]

(***************************************************************************)
(* Line classifier and message normaliser                                  *)
(***************************************************************************)
\* the formats the inner loop of parse_timestamp tries, by their separator
TimestampFormats == <<" ", "T">>

\* core.py 36-40: the first format under which ts_str parses, else None
RECURSIVE TryFormats(_, _)
TryFormats(ts_str, k) ==
    IF k > Len(TimestampFormats) THEN None
    ELSE LET r == strptime(ts_str, TimestampFormats[k])
         IN  IF r # ValueError THEN r ELSE TryFormats(ts_str, k + 1)

\* core.py 32-41: the patterns from the k-th on
RECURSIVE ParseFrom(_, _)
ParseFrom(line, k) ==
    IF k > Len(TIMESTAMP_PATTERNS) THEN None
    ELSE LET at == search(TIMESTAMP_PATTERNS[k], line)
             r  == IF at = 0 THEN None
                   ELSE TryFormats(SubSeq(line, at, at + 18), 1)
         IN  IF r # None THEN r ELSE ParseFrom(line, k + 1)

\* parse_timestamp with the fault of a `return None` after the inner loop:
\* the first pattern that matches decides
parse_timestamp_FirstPattern(line) ==
    LET hit == {k \in DOMAIN TIMESTAMP_PATTERNS :
                    search(TIMESTAMP_PATTERNS[k], line) > 0}
    IN  IF hit = {} THEN None
        ELSE LET at == search(TIMESTAMP_PATTERNS[Min(hit)], line)
             IN  TryFormats(SubSeq(line, at, at + 18), 1)

parse_timestamp(line) == ParseFrom(line, 1)

\* detect_source's None: the group (...)+ is never empty, so "" is no source
NoSource == ""

detect_level(line) ==
    LET at == search(LOGLEVEL_PATTERN, line)
    IN  IF at = 0 THEN "UNKNOWN"
        ELSE LET level == SubSeq(line, at, match_at(LOGLEVEL_PATTERN, line, at) - 1)
             IN  IF level = "WARNING" THEN "WARN" ELSE level

detect_source(line) ==
    LET at == search(SOURCE_PATTERN, line)
    IN  IF at = 0 THEN NoSource
        ELSE LET eq == CHOOSE j \in at..Len(line) : Ch(line, j) = "="
             IN  SubSeq(line, eq + 1, match_at(SOURCE_PATTERN, line, at) - 1)

\* each assignment `tmp = ...` is a singleton set, so that tmp is evaluated
\* once, as the assignment evaluates it
normalize_message(line) ==
    LET NoTimestamp1 == {sub(TIMESTAMP_PATTERNS[1], "", line)}
        NoTimestamp2 == {sub(TIMESTAMP_PATTERNS[2], "", tmp) : tmp \in NoTimestamp1}
        NoLevel      == {sub(LOGLEVEL_PATTERN, "", tmp) : tmp \in NoTimestamp2}
        NoSourceTag  == {sub(SOURCE_PATTERN, "", tmp) : tmp \in NoLevel}
        OneSpace     == {sub(WHITESPACE_PATTERN, " ", tmp) : tmp \in NoSourceTag}
        Stripped     == {strip(tmp) : tmp \in OneSpace}
    IN  CHOOSE r \in {IF tmp = "" THEN "<empty>" ELSE tmp : tmp \in Stripped} : TRUE

(***************************************************************************)
(* dict and Counter                                                        *)
(***************************************************************************)
\* d.get(k, 0)
Get(d, k) == IF k \in DOMAIN d THEN d[k] ELSE 0

\* d[k] += n on a Counter or a defaultdict(int) whose key order is never read
Add(d, k, n) ==
    [j \in DOMAIN d \cup {k} |-> IF j = k THEN Get(d, k) + n ELSE d[j]]

\* the keys of the items of an insertion-ordered Counter
Keys(items) == {items[i][1] : i \in DOMAIN items}

\* items[key] = count (dict.__setitem__): in place when the key is there,
\* appended when it is new
SetItem(items, key, count) ==
    IF key \in Keys(items)
    THEN [i \in DOMAIN items |->
              IF items[i][1] = key THEN <<key, count>> ELSE items[i]]
    ELSE Append(items, <<key, count>>)

\* items.get(key, 0)
GetItem(items, key) ==
    IF key \in Keys(items)
    THEN items[CHOOSE i \in DOMAIN items : items[i][1] = key][2]
    ELSE 0

\* dict(pairs): a key keeps the place of its first pair and has the count
\* of its last
DictOf(pairs) ==
    LET IsFirst(i) == \A j \in 1..(i - 1) : pairs[j][1] # pairs[i][1]
        firsts     == {i \in DOMAIN pairs : IsFirst(i)}
        nth(k)     == CHOOSE i \in firsts :
                          Cardinality({j \in firsts : j < i}) = k - 1
        last(key)  == Max({j \in DOMAIN pairs : pairs[j][1] = key})
    IN  [k \in 1..Cardinality(firsts) |->
            <<pairs[nth(k)][1], pairs[last(pairs[nth(k)][1])][2]>>]

\* Counter.update with the fault of dict.update: a count of the mapping
\* replaces the count already there
CounterUpdate_Overwrite(items, mapping) ==
    LET IsNew(pair) == pair[1] \notin Keys(items)
    IN  [i \in DOMAIN items |->
            IF items[i][1] \in Keys(mapping)
            THEN <<items[i][1], GetItem(mapping, items[i][1])>>
            ELSE items[i]]
        \o SelectSeq(mapping, IsNew)

\* Counter.update(mapping) (and Counter(mapping) on the empty counter): the
\* mapping's counts are added, its new keys appended in the mapping's order
CounterUpdate(items, mapping) ==
    LET IsNew(pair) == pair[1] \notin Keys(items)
    IN  [i \in DOMAIN items |->
            <<items[i][1], items[i][2] + GetItem(mapping, items[i][1])>>]
        \o SelectSeq(mapping, IsNew)

\* most_common() with the fault of a forgotten n: every item, sorted
most_common_NoCut(items, n) ==
    LET place(i) ==
            1 + Cardinality({j \in DOMAIN items :
                                 \/ items[j][2] > items[i][2]
                                 \/ items[j][2] = items[i][2] /\ j < i})
    IN  [k \in 1..Len(items) |-> items[CHOOSE i \in DOMAIN items : place(i) = k]]

\* Counter.most_common(n): heapq.nlargest(n, items, key=count), which is
\* sorted(items, key=count, reverse=True)[:n]: a stable sort, so equal
\* counts keep their insertion order
most_common(items, n) ==
    LET place(i) ==
            1 + Cardinality({j \in DOMAIN items :
                                 \/ items[j][2] > items[i][2]
                                 \/ items[j][2] = items[i][2] /\ j < i})
        m == IF Len(items) < n THEN Len(items) ELSE n
    IN  [k \in 1..m |-> items[CHOOSE i \in DOMAIN items : place(i) = k]]

\* core.py 118 and 161: most_common(5)
TopN == 5

(***************************************************************************)
(* Inputs                                                                  *)
(***************************************************************************)
\* the most paths one run of analyze_files is given
MaxFiles == 3

\* the most lines one run reads from files that are not sample logs
MaxLines == 4

\* raw lines as iterating a text file yields them
Corpus ==
    {"2025-02-26 12:00:00 ERROR service=auth Login failed\n",
     "2025-02-26T11:00:00 ERROR app=web Login failed\n",
     "WARNING: disk usage high\n",
     "2025-13-01 12:00:00 DEBUG retry 2025-01-01T09:30:00\n",
     "INFO app=web Request OK\n",
     "\n"}

\* a longer log: more distinct messages than most_common(5) keeps, blank
\* and whitespace-only lines, and a last line without a newline
SampleLogs ==
    {<<"INFO app=web Request OK\n",
       "\n",
       "ERROR app=web Request failed\n",
       " \n",
       "2025-03-01 08:00:00 CRITICAL module=db.core crash\n",
       "DEBUG cache miss\n",
       "INFORMATION only\n",
       "WARN src=disk_1 disk usage high\n",
       "\n",
       "ERROR app=web Request failed">>}

\* the contents a file of at most n lines may have
FilesUpTo(n) == UNION {[1..k -> Corpus] : k \in 0..n}

\* every raw line a stream of the model can hold
AllLines == Corpus \cup UNION {{f[i] : i \in DOMAIN f} : f \in SampleLogs}

\* core.py 91, 98, 102, 110 and 115: what one iteration of the loop of
\* analyze_stream computes from the line alone
Classify(raw) ==
    LET Of(line) == [line  |-> line,
                     level |-> detect_level(line),
                     ts    |-> parse_timestamp(line),
                     src   |-> detect_source(line),
                     msg   |-> normalize_message(line)]
    IN  CHOOSE c \in {Of(line) : line \in {rstrip(raw, {"\n"})}} : TRUE

\* Classify, tabulated once over the lines of the model
Classified == [raw \in AllLines |-> Classify(raw)]

(***************************************************************************)
(* Stream aggregator (analyze_stream) and result merger (merge_stats)      *)
(***************************************************************************)
\* the dataclass
LogStats(total_lines, level_counts, first_timestamp, last_timestamp, top_messages, source_counts) ==
    [total_lines     |-> total_lines,
     level_counts    |-> level_counts,
     first_timestamp |-> first_timestamp,
     last_timestamp  |-> last_timestamp,
     top_messages    |-> top_messages,
     source_counts   |-> source_counts]

\* the locals of analyze_stream before its loop (core.py 83-88)
EmptyAcc ==
    [total_lines     |-> 0,
     level_counts    |-> <<>>,
     message_counter |-> <<>>,
     source_counts   |-> <<>>,
     first_ts        |-> None,
     last_ts         |-> None]

\* the loop body with the fault of counting the line before the blank test
LoopBody_CountsBlank(acc, c) ==
    IF c.line = "" THEN [acc EXCEPT !.total_lines = @ + 1]
    ELSE [total_lines     |-> acc.total_lines + 1,
          level_counts    |-> Add(acc.level_counts, c.level, 1),
          message_counter |->
              SetItem(acc.message_counter, c.msg,
                      GetItem(acc.message_counter, c.msg) + 1),
          source_counts   |->
              IF c.src # NoSource THEN Add(acc.source_counts, c.src, 1)
              ELSE acc.source_counts,
          first_ts        |->
              IF c.ts # None /\ (acc.first_ts = None \/ LexLess(c.ts, acc.first_ts))
              THEN c.ts ELSE acc.first_ts,
          last_ts         |->
              IF c.ts # None /\ (acc.last_ts = None \/ LexLess(acc.last_ts, c.ts))
              THEN c.ts ELSE acc.last_ts]

\* the loop body with the fault of no blank test: a blank line is counted
\* like any other, with level UNKNOWN and message <empty>
LoopBody_NoSkip(acc, c) ==
    [total_lines     |-> acc.total_lines + 1,
     level_counts    |-> Add(acc.level_counts, c.level, 1),
     message_counter |->
         SetItem(acc.message_counter, c.msg,
                 GetItem(acc.message_counter, c.msg) + 1),
     source_counts   |->
         IF c.src # NoSource THEN Add(acc.source_counts, c.src, 1)
         ELSE acc.source_counts,
     first_ts        |->
         IF c.ts # None /\ (acc.first_ts = None \/ LexLess(c.ts, acc.first_ts))
         THEN c.ts ELSE acc.first_ts,
     last_ts         |->
         IF c.ts # None /\ (acc.last_ts = None \/ LexLess(acc.last_ts, c.ts))
         THEN c.ts ELSE acc.last_ts]

\* one iteration of the loop of analyze_stream (core.py 90-116) on the
\* locals acc, for a line classified as c
LoopBody(acc, c) ==
    IF c.line = "" THEN acc
    ELSE [total_lines     |-> acc.total_lines + 1,
          level_counts    |-> Add(acc.level_counts, c.level, 1),
          message_counter |->
              SetItem(acc.message_counter, c.msg,
                      GetItem(acc.message_counter, c.msg) + 1),
          source_counts   |->
              IF c.src # NoSource THEN Add(acc.source_counts, c.src, 1)
              ELSE acc.source_counts,
          first_ts        |->
              IF c.ts # None /\ (acc.first_ts = None \/ LexLess(c.ts, acc.first_ts))
              THEN c.ts ELSE acc.first_ts,
          last_ts         |->
              IF c.ts # None /\ (acc.last_ts = None \/ LexLess(acc.last_ts, c.ts))
              THEN c.ts ELSE acc.last_ts]

\* the return of analyze_stream with first_ts and last_ts in each other's
\* place
Finish_Swapped(acc) ==
    LogStats(acc.total_lines, acc.level_counts, acc.last_ts, acc.first_ts,
             most_common(acc.message_counter, TopN), acc.source_counts)

\* what analyze_stream returns once the stream is exhausted (core.py 118-127)
Finish(acc) ==
    LogStats(acc.total_lines, acc.level_counts, acc.first_ts, acc.last_ts,
             most_common(acc.message_counter, TopN), acc.source_counts)

\* the same loop with the fault of d[k] = v
AddAll_Overwrite(a, b) ==
    [k \in DOMAIN a \cup DOMAIN b |-> IF k \in DOMAIN b THEN b[k] ELSE a[k]]

\* d = defaultdict(int, a); for k, v in b.items(): d[k] += v
AddAll(a, b) == [k \in DOMAIN a \cup DOMAIN b |-> Get(a, k) + Get(b, k)]

\* the top lists recombined with the fault of dict(a + b): a message in both
\* lists keeps the count of the second
MergeTop_Overwrite(a, b) ==
    most_common(DictOf(a.top_messages \o b.top_messages), TopN)

\* core.py 159-161: the two top lists recombined
MergeTop(a, b) ==
    most_common(CounterUpdate(CounterUpdate(<<>>, DictOf(a.top_messages)),
                              DictOf(b.top_messages)),
                TopN)

\* the merged first_timestamp with the fault of no test for an absent
\* a.first_timestamp
MergeFirst_NoneIsLeast(a, b) ==
    IF /\ b.first_timestamp # None
       /\ a.first_timestamp # None
       /\ LexLess(b.first_timestamp, a.first_timestamp)
    THEN b.first_timestamp ELSE a.first_timestamp

\* core.py 163-165
MergeFirst(a, b) ==
    IF /\ b.first_timestamp # None
       /\ \/ a.first_timestamp = None
          \/ LexLess(b.first_timestamp, a.first_timestamp)
    THEN b.first_timestamp ELSE a.first_timestamp

\* the merged last_timestamp with the fault of no comparison: b's, when b
\* has one
MergeLast_TakeB(a, b) ==
    IF b.last_timestamp # None THEN b.last_timestamp ELSE a.last_timestamp

\* core.py 167-169
MergeLast(a, b) ==
    IF /\ b.last_timestamp # None
       /\ \/ a.last_timestamp = None
          \/ LexLess(a.last_timestamp, b.last_timestamp)
    THEN b.last_timestamp ELSE a.last_timestamp

merge_stats(a, b) ==
    LogStats(a.total_lines + b.total_lines,
             AddAll(a.level_counts, b.level_counts),
             MergeFirst(a, b),
             MergeLast(a, b),
             MergeTop(a, b),
             AddAll(a.source_counts, b.source_counts))

(***************************************************************************)
(* analyze_files, one step per line read                                   *)
(***************************************************************************)
VARIABLES
    pc,              \* "start" | "stdin" | "file" | "returned"
    nfiles,          \* paths analysed so far
    nread,           \* lines read so far from streams that are no sample log
    rest,            \* the lines of the open stream not read yet
    acc,             \* the locals of the running analyze_stream
    combined_stats,  \* analyze_files' combined_stats, then its result
    whole,           \* history: the same loop run over every line of the run
    noblank,         \* history: the loop run over the stream's non-blank lines
    exact,           \* history: no stream so far had more than TopN messages
    opA, opB,        \* SpecAny: the operands of merge_stats
    mAB, mBA,        \* SpecAny: merge_stats(opA, opB), merge_stats(opB, opA)
    line,            \* SpecLine: the line given to parse_timestamp
    parsed           \* SpecLine: what parse_timestamp returned

vars == <<pc, nfiles, nread, rest, acc, combined_stats, whole, noblank,
          exact, opA, opB, mAB, mBA, line, parsed>>

\* what the other specifications read
anyVars == <<opA, opB, mAB, mBA, line, parsed>>

\* parse_timestamp has not returned yet
Pending == <<0>>

fileVars == <<pc, nfiles, nread, rest, acc, combined_stats, whole, noblank,
              exact>>

\* zero-length after the trailing newlines are removed
IsBlank(raw) == \A i \in 1..Len(raw) : Ch(raw, i) = "\n"

Init ==
    /\ pc = "start"
    /\ nfiles = 0
    /\ nread = 0
    /\ rest = <<>>
    /\ acc = EmptyAcc
    /\ combined_stats = None
    /\ whole = EmptyAcc
    /\ noblank = EmptyAcc
    /\ exact = TRUE
    /\ opA = None /\ opB = None /\ mAB = None /\ mBA = None
    /\ line = "" /\ parsed = Pending

\* a stream is opened and analyze_stream starts on it (core.py 83-88); its
\* content is what the file, or stdin, holds
OpenStream(to) ==
    /\ \E f \in FilesUpTo(MaxLines - nread) \cup SampleLogs :
           /\ rest' = f
           /\ nread' = IF f \in SampleLogs THEN nread ELSE nread + Len(f)
    /\ acc' = EmptyAcc
    /\ noblank' = EmptyAcc
    /\ pc' = to
    /\ UNCHANGED <<nfiles, combined_stats, whole, exact, anyVars>>

\* core.py 131-133: no paths, the stream is stdin
OpenStdin ==
    /\ pc = "start"
    /\ nfiles = 0
    /\ OpenStream("stdin")

\* core.py 137-139: the next path is opened
OpenPath ==
    /\ pc = "start"
    /\ nfiles < MaxFiles
    /\ OpenStream("file")

\* core.py 90-116: one iteration of `for line in stream`
ReadLine ==
    /\ pc \in {"stdin", "file"}
    /\ rest # <<>>
    /\ \E c \in {Classified[Head(rest)]} :
           /\ acc' = LoopBody(acc, c)
           /\ whole' = LoopBody(whole, c)
           /\ noblank' = IF IsBlank(Head(rest)) THEN noblank
                         ELSE LoopBody(noblank, c)
    /\ rest' = Tail(rest)
    /\ UNCHANGED <<pc, nfiles, nread, combined_stats, exact, anyVars>>

\* core.py 118-127 and 133: stdin is exhausted, analyze_files returns what
\* analyze_stream returns
EndOfStdin ==
    /\ pc = "stdin"
    /\ rest = <<>>
    /\ combined_stats' = Finish(acc)
    /\ exact' = (Len(acc.message_counter) <= TopN)
    /\ pc' = "returned"
    /\ UNCHANGED <<nfiles, nread, rest, acc, whole, noblank, anyVars>>

\* core.py 118-127 and 141-144: the file is exhausted, analyze_stream
\* returns and its result is kept (the first) or merged into combined_stats
EndOfFile ==
    /\ pc = "file"
    /\ rest = <<>>
    /\ combined_stats' =
           IF combined_stats = None THEN Finish(acc)
           ELSE merge_stats(combined_stats, Finish(acc))
    /\ exact' = (exact /\ Len(acc.message_counter) <= TopN)
    /\ nfiles' = nfiles + 1
    /\ pc' = "start"
    /\ UNCHANGED <<nread, rest, acc, whole, noblank, anyVars>>

\* core.py 146-147: the paths are exhausted
Return ==
    /\ pc = "start"
    /\ nfiles >= 1
    /\ pc' = "returned"
    /\ UNCHANGED <<nfiles, nread, rest, acc, combined_stats, whole, noblank,
                   exact, anyVars>>

Next == OpenStdin \/ OpenPath \/ ReadLine \/ EndOfStdin \/ EndOfFile \/ Return

Spec == Init /\ [][Next]_vars

(***************************************************************************)
(* parse_timestamp on single lines                                         *)
(***************************************************************************)
\* the most fragments a line is put together from
MaxFragments == 3

Fragments ==
    {"2025-02-26 12:00:00",     \* a date-time, space form
     "2025-13-01 12:00:00",     \* month 13
     "2025-01-01 99:00:00",     \* hour 99
     "2025-01-01T09:30:00",     \* a date-time, T form
     "2025-02-30T10:00:00",     \* 30 February
     "ERROR",
     "x2025-01-01"}

Join(fs) ==
    LET upto[k \in 1..Len(fs)] ==
            IF k = 1 THEN fs[1] ELSE upto[k - 1] \o " " \o fs[k]
    IN  upto[Len(fs)]

LinesUpTo(n) == {Join(fs) : fs \in UNION {[1..k -> Fragments] : k \in 1..n}}

InitLine ==
    /\ line \in LinesUpTo(MaxFragments)
    /\ parsed = Pending
    /\ pc = "start" /\ nfiles = 0 /\ nread = 0 /\ rest = <<>>
    /\ acc = EmptyAcc /\ combined_stats = None /\ whole = EmptyAcc
    /\ noblank = EmptyAcc /\ exact = TRUE
    /\ opA = None /\ opB = None /\ mAB = None /\ mBA = None

\* core.py 31-41
ParseTimestamp ==
    /\ parsed = Pending
    /\ parsed' = parse_timestamp(line)
    /\ UNCHANGED <<fileVars, opA, opB, mAB, mBA, line>>

NextLine == ParseTimestamp

SpecLine == InitLine /\ [][NextLine]_vars

(***************************************************************************)
(* merge_stats on any two LogStats values                                  *)
(***************************************************************************)
\* the largest count in a LogStats value given to merge_stats
MaxCount == 2

Stamps == {None, <<2025, 1, 1, 0, 0, 0>>, <<2025, 2, 26, 12, 0, 0>>}

\* total_lines with level_counts and source_counts, consistent or not
CountChoices ==
    {<<0, <<>>, <<>>>>,
     <<1, [INFO |-> 1], [web |-> 1]>>,
     <<3, [INFO |-> 1, ERROR |-> MaxCount], [auth |-> MaxCount]>>}

\* top lists: the empty one, every list of one entry for two messages, and
\* longer ones (one unsorted, one naming a message twice)
TopChoices ==
    LET pairs == {"x", "y"} \X (1..MaxCount)
    IN  UNION {[1..k -> pairs] : k \in 0..1}
        \cup {<<<<"a", 2>>, <<"b", 1>>, <<"x", 1>>>>,
              <<<<"d", 2>>, <<"y", 2>>, <<"e", 1>>, <<"f", 1>>>>,
              <<<<"c", 3>>, <<"g", 1>>, <<"b", 1>>, <<"y", 1>>, <<"h", 1>>>>,
              <<<<"x", 1>>, <<"y", 2>>, <<"x", 2>>>>}

AnyStats ==
    {LogStats(c[1], c[2], f, l, t, c[3]) :
        c \in CountChoices, f \in Stamps, l \in Stamps, t \in TopChoices}

InitAny ==
    /\ opA \in AnyStats
    /\ opB \in AnyStats
    /\ mAB = None /\ mBA = None
    /\ line = "" /\ parsed = Pending
    /\ pc = "start" /\ nfiles = 0 /\ nread = 0 /\ rest = <<>>
    /\ acc = EmptyAcc /\ combined_stats = None /\ whole = EmptyAcc
    /\ noblank = EmptyAcc /\ exact = TRUE

\* core.py 150-178, called with the operands in either order
Merge ==
    /\ mAB = None
    /\ mAB' = merge_stats(opA, opB)
    /\ mBA' = merge_stats(opB, opA)
    /\ UNCHANGED <<fileVars, opA, opB, line, parsed>>

NextAny == Merge

SpecAny == InitAny /\ [][NextAny]_vars

(***************************************************************************)
(* Properties                                                              *)
(***************************************************************************)
\* the sum of the values of a dict
RECURSIVE SumOver(_, _)
SumOver(d, ks) ==
    IF ks = {} THEN 0
    ELSE LET k == CHOOSE k \in ks : TRUE IN d[k] + SumOver(d, ks \ {k})

Sum(d) == SumOver(d, DOMAIN d)

\* the counts of a top list, in its order
Counts(top) == [i \in DOMAIN top |-> top[i][2]]

\* analyze_files has merged exactly two analysed files a and b:
\* combined_stats = merge_stats(analyze_stream(a), analyze_stream(b)), acc
\* still holds the locals of the run over b, and Finish(whole) is
\* analyze_stream(a followed by b)
MergedTwo == pc = "start" /\ nfiles = 2

\* analyze_stream has returned, or analyze_files has a result
Produced == {Finish(acc)} \cup (IF combined_stats = None THEN {} ELSE {combined_stats})

\* C1: merging the results of two streams gives the total_lines, the
\* level_counts and the source_counts of analysing the first stream
\* followed by the second
C1_MergeCounts ==
    MergedTwo =>
        /\ combined_stats.total_lines = Finish(whole).total_lines
        /\ combined_stats.level_counts = Finish(whole).level_counts
        /\ combined_stats.source_counts = Finish(whole).source_counts

\* both operands counted lines, some level and some source in both
C1_Witness ==
    /\ MergedTwo
    /\ acc.total_lines >= 1
    /\ combined_stats.total_lines > acc.total_lines
    /\ \E k \in DOMAIN acc.level_counts :
           combined_stats.level_counts[k] > acc.level_counts[k]
    /\ \E k \in DOMAIN acc.source_counts :
           combined_stats.source_counts[k] > acc.source_counts[k]

\* C2 as claimed: when neither stream has more than five distinct messages,
\* the merged top_messages is, entry by entry, the top_messages of
\* analysing the first stream followed by the second
C2_Original ==
    (MergedTwo /\ exact) =>
        combined_stats.top_messages = Finish(whole).top_messages

\* C2, amended: under the same condition the two lists have the same counts
\* position by position, and every entry of the merged list carries the
\* count its message has in the two streams together; which of several
\* messages of equal count comes first, or survives the cut at five, may
\* differ
C2_Amended ==
    (MergedTwo /\ exact) =>
        /\ Counts(combined_stats.top_messages) = Counts(Finish(whole).top_messages)
        /\ \A i \in DOMAIN combined_stats.top_messages :
               combined_stats.top_messages[i][2] =
                   GetItem(whole.message_counter, combined_stats.top_messages[i][1])

\* two streams that share a message, merged, with the lists in another order
C2_Witness ==
    /\ MergedTwo /\ exact
    /\ combined_stats.top_messages # Finish(whole).top_messages
    /\ \E i \in DOMAIN acc.message_counter :
           GetItem(whole.message_counter, acc.message_counter[i][1])
               > acc.message_counter[i][2]

\* C5: in every result of analyze_stream and of a fold of merge_stats over
\* such results, total_lines is the sum of the level_counts values, hence
\* at least each of them
C5_TotalIsLevelSum ==
    \A st \in Produced :
        /\ st.total_lines = Sum(st.level_counts)
        /\ \A k \in DOMAIN st.level_counts : st.total_lines >= st.level_counts[k]

\* three files merged, with blank lines read and several levels counted
C5_Witness ==
    /\ pc = "start" /\ nfiles = 3
    /\ nread > whole.total_lines
    /\ Cardinality(DOMAIN combined_stats.level_counts) >= 2
    /\ combined_stats.total_lines >= 3

\* C6: in every such result top_messages has at most five entries, with
\* counts that never increase from one entry to the next
C6_TopMessagesBounded ==
    \A st \in Produced :
        /\ Len(st.top_messages) <= 5
        /\ \A i \in 1..(Len(st.top_messages) - 1) :
               st.top_messages[i][2] >= st.top_messages[i + 1][2]

\* a stream with more than five messages was cut to five, and merged
C6_Witness ==
    /\ pc = "start" /\ nfiles >= 2
    /\ Len(acc.message_counter) > 5
    /\ Len(Finish(acc).top_messages) = 5
    /\ Len(combined_stats.top_messages) = 5
    /\ combined_stats.top_messages[1][2] > combined_stats.top_messages[5][2]

\* C7: in every such result, first_timestamp is not after last_timestamp
\* when both are present
C7_FirstNotAfterLast ==
    \A st \in Produced :
        (st.first_timestamp # None /\ st.last_timestamp # None) =>
            ~LexLess(st.last_timestamp, st.first_timestamp)

\* the file merged last held the earliest timestamp of the run
C7_Witness ==
    /\ pc = "start" /\ nfiles >= 2
    /\ acc.first_ts # None
    /\ combined_stats.first_timestamp = acc.first_ts
    /\ LexLess(acc.last_ts, combined_stats.last_timestamp)
    /\ LexLess(acc.first_ts, acc.last_ts)

\* C9: blank lines change no field of the result: the stream with its blank
\* lines and the stream without them give the same LogStats
C9_BlankLinesIgnored == Finish(acc) = Finish(noblank)

\* a first file of three lines, one of them blank, read to its end
C9_Witness ==
    /\ pc = "file" /\ nfiles = 0 /\ rest = <<>>
    /\ nread = 3
    /\ acc.total_lines = 2
    /\ acc.first_ts # None

(***************************************************************************)
(* Properties of merge_stats on any two values (SpecAny)                   *)
(***************************************************************************)
\* C3: merge_stats(A, B) and merge_stats(B, A) agree on total_lines,
\* level_counts, source_counts, first_timestamp and last_timestamp
C3_MergeCommutes ==
    mAB # None =>
        /\ mAB.total_lines = mBA.total_lines
        /\ mAB.level_counts = mBA.level_counts
        /\ mAB.source_counts = mBA.source_counts
        /\ mAB.first_timestamp = mBA.first_timestamp
        /\ mAB.last_timestamp = mBA.last_timestamp

\* operands that differ in each of the five fields, with a key in common
C3_Witness ==
    /\ mAB # None
    /\ opA.total_lines # opB.total_lines
    /\ DOMAIN opA.level_counts \cap DOMAIN opB.level_counts # {}
    /\ opA.level_counts # opB.level_counts
    /\ opA.source_counts # opB.source_counts
    /\ opA.first_timestamp # None /\ opB.first_timestamp # None
    /\ opA.first_timestamp # opB.first_timestamp
    /\ opA.last_timestamp # None /\ opB.last_timestamp # None
    /\ opA.last_timestamp # opB.last_timestamp

\* C4 as claimed: merge_stats(A, B) and merge_stats(B, A) have the same
\* top_messages
C4_Original == mAB # None => mAB.top_messages = mBA.top_messages

\* the counts of the two top lists put together, per message
Combined(a, b) == CounterUpdate(DictOf(a.top_messages), DictOf(b.top_messages))

NoTie(items) ==
    \A i, j \in DOMAIN items : i # j => items[i][2] # items[j][2]

\* C4, amended: the two top lists have the same counts position by
\* position, and are the same list when no two messages have the same
\* combined count; messages of equal count come in the order of the
\* operands
C4_Amended ==
    mAB # None =>
        /\ Counts(mAB.top_messages) = Counts(mBA.top_messages)
        /\ NoTie(Combined(opA, opB)) => mAB.top_messages = mBA.top_messages

\* the operands share a message and the two merged lists differ
C4_Witness ==
    /\ mAB # None
    /\ mAB.top_messages # mBA.top_messages
    /\ Keys(opA.top_messages) \cap Keys(opB.top_messages) # {}
    /\ Len(mAB.top_messages) = 5

\* the least (greatest) of the timestamps that are present, None when
\* neither is
Earliest(t, u) ==
    IF t = None THEN u ELSE IF u = None THEN t
    ELSE IF LexLess(u, t) THEN u ELSE t

Latest(t, u) ==
    IF t = None THEN u ELSE IF u = None THEN t
    ELSE IF LexLess(t, u) THEN u ELSE t

\* C8: the merged first_timestamp is the least of the operands' present
\* first_timestamps and the merged last_timestamp the greatest of their
\* present last_timestamps; each is absent only if absent in both
C8_MergeTimestamps ==
    mAB # None =>
        /\ mAB.first_timestamp = Earliest(opA.first_timestamp, opB.first_timestamp)
        /\ mAB.last_timestamp = Latest(opA.last_timestamp, opB.last_timestamp)
        /\ (mAB.first_timestamp = None) =
               (opA.first_timestamp = None /\ opB.first_timestamp = None)
        /\ (mAB.last_timestamp = None) =
               (opA.last_timestamp = None /\ opB.last_timestamp = None)

\* the first operand has no first_timestamp, the second has one, and the
\* first operand has the later last_timestamp
C8_Witness ==
    /\ mAB # None
    /\ opA.first_timestamp = None /\ opB.first_timestamp # None
    /\ mAB.first_timestamp = opB.first_timestamp
    /\ opB.last_timestamp # None
    /\ opA.last_timestamp # None
    /\ LexLess(opB.last_timestamp, opA.last_timestamp)

(***************************************************************************)
(* Properties of parse_timestamp (SpecLine)                                *)
(***************************************************************************)
\* the leftmost substring of the line with the digit template around sep,
\* "" when there is none
Leftmost(l, sep) ==
    LET at == {i \in 1..Len(l) : TimestampAt(l, i, sep)}
    IN  IF at = {} THEN "" ELSE SubSeq(l, Min(at), Min(at) + 18)

\* the substring is a date-time in the form with sep
IsDateTime(str, sep) == str # "" /\ strptime(str, sep) # ValueError

\* C10 as claimed: parse_timestamp commits to the first pattern that
\* matches; when that match is no date-time the result is None, whatever
\* else the line holds
C10_Original ==
    parsed # Pending =>
        LET first == IF Leftmost(line, " ") # "" THEN " " ELSE "T"
        IN  (Leftmost(line, first) # "" /\ ~IsDateTime(Leftmost(line, first), first))
                => parsed = None

\* C10, amended: the space form is tried before the T form, and a pattern
\* whose leftmost match is no date-time is passed over for the next one:
\* the result is the leftmost space-form match when that is a date-time,
\* else the leftmost T-form match when that is one, else None; no
\* ValueError leaves parse_timestamp
C10_Amended ==
    parsed # Pending =>
        /\ parsed # ValueError
        /\ parsed =
               IF IsDateTime(Leftmost(line, " "), " ")
               THEN strptime(Leftmost(line, " "), " ")
               ELSE IF IsDateTime(Leftmost(line, "T"), "T")
                    THEN strptime(Leftmost(line, "T"), "T")
                    ELSE None

\* a space-form match that is no date-time, before a T-form date-time
C10_Witness ==
    /\ parsed # Pending
    /\ Leftmost(line, " ") # ""
    /\ ~IsDateTime(Leftmost(line, " "), " ")
    /\ IsDateTime(Leftmost(line, "T"), "T")
    /\ parsed = strptime(Leftmost(line, "T"), "T")
=============================================================================
